---- MODULE Spec2Model ----
(***************************************************************************)
(* A model of the SVG region-coloring engine of                            *)
(* svg-map-creator/scripts/color-svg-map.py: the style codec (parse_style, *)
(* style_to_string, set_fill_color), the legend grouping (add_legend) and  *)
(* the coloring walk of color_map, followed by the write of the output     *)
(* document and a second run on that output.                               *)
(*                                                                         *)
(* A Python str is a sequence of one-character strings.  An XML attribute  *)
(* that may be absent is a sequence of length 0 (absent) or 1 (present,    *)
(* holding the str).  A dict is a sequence of entries in insertion order   *)
(* with distinct keys.                                                     *)
(***************************************************************************)
EXTENDS Integers, Sequences, FiniteSets, TLC

(***************************************************************************)
(* Python str primitives                                                   *)
(***************************************************************************)

\* The printable ASCII characters in code point order, from the space on (the
\* double quote, the backslash and the backquote are left out: no input of the
\* model holds them).
AsciiTable ==
    << " ", "!", "#", "$", "%", "&", "'", "(", ")", "*", "+", ",",
       "-", ".", "/", "0", "1", "2", "3", "4", "5", "6", "7", "8",
       "9", ":", ";", "<", "=", ">", "?", "@", "A", "B", "C", "D",
       "E", "F", "G", "H", "I", "J", "K", "L", "M", "N", "O", "P",
       "Q", "R", "S", "T", "U", "V", "W", "X", "Y", "Z", "[", "]",
       "^", "_", "a", "b", "c", "d", "e", "f", "g", "h", "i", "j",
       "k", "l", "m", "n", "o", "p", "q", "r", "s", "t", "u", "v",
       "w", "x", "y", "z", "{", "|", "}", "~" >>

\* The rank of character c in code point order; str comparison orders by it.
Ord(c) == CHOOSE i \in 1..Len(AsciiTable) : AsciiTable[i] = c

\* c.isspace() for the characters of the model.
IsSpace(c) == c \in {" ", "\t", "\n"}

\* a < b for two str: lexicographic by code point, a proper prefix first.
RECURSIVE StrLess(_, _)
StrLess(a, b) ==
    IF b = <<>> THEN FALSE
    ELSE IF a = <<>> THEN TRUE
    ELSE IF Head(a) = Head(b) THEN StrLess(Tail(a), Tail(b))
    ELSE Ord(Head(a)) < Ord(Head(b))

RECURSIVE LStrip(_)
LStrip(s) == IF s # <<>> /\ IsSpace(Head(s)) THEN LStrip(Tail(s)) ELSE s

RECURSIVE RStrip(_)
RStrip(s) ==
    IF s # <<>> /\ IsSpace(s[Len(s)]) THEN RStrip(SubSeq(s, 1, Len(s) - 1)) ELSE s

\* s.strip()
Strip(s) == RStrip(LStrip(s))

\* The index of the first occurrence of character c in s, 0 when there is none.
RECURSIVE FindFrom(_, _, _)
FindFrom(s, c, i) ==
    IF i > Len(s) THEN 0 ELSE IF s[i] = c THEN i ELSE FindFrom(s, c, i + 1)

Find(s, c) == FindFrom(s, c, 1)

\* s.split(c): the segments between the occurrences of c, empty ones kept.
RECURSIVE Split(_, _)
Split(s, c) ==
    LET i == Find(s, c)
    IN  IF i = 0 THEN <<s>>
        ELSE <<SubSeq(s, 1, i - 1)>> \o Split(SubSeq(s, i + 1, Len(s)), c)

\* sub in s
Contains(s, sub) ==
    \E i \in 1..(Len(s) - Len(sub) + 1) : SubSeq(s, i, i + Len(sub) - 1) = sub

\* sep.join(parts)
RECURSIVE Join(_, _)
Join(parts, sep) ==
    IF parts = <<>> THEN <<>>
    ELSE IF Len(parts) = 1 THEN parts[1]
    ELSE parts[1] \o sep \o Join(Tail(parts), sep)

(***************************************************************************)
(* Python dict primitives: a sequence of [k, v] in insertion order         *)
(***************************************************************************)

DictKeys(d) == {d[i].k : i \in 1..Len(d)}

DictGet(d, key) == d[CHOOSE i \in 1..Len(d) : d[i].k = key].v

\* d[key] = val: an existing key keeps its position, a new one goes last.
DictSet(d, key, val) ==
    IF key \in DictKeys(d)
    THEN [i \in 1..Len(d) |-> IF d[i].k = key THEN [k |-> key, v |-> val] ELSE d[i]]
    ELSE Append(d, [k |-> key, v |-> val])

(***************************************************************************)
(* The multi-path alias table                                              *)
(***************************************************************************)

MULTI_PATH_CLASSES ==
    <<
       [code |-> <<"A", "O">>, name |-> <<"A", "n", "g", "o", "l", "a">>],
       [code |-> <<"A", "R">>, name |-> <<"A", "r", "g", "e", "n", "t", "i", "n", "a">>],
       [code |-> <<"A", "U">>, name |-> <<"A", "u", "s", "t", "r", "a", "l", "i", "a">>],
       [code |-> <<"A", "Z">>, name |-> <<"A", "z", "e", "r", "b", "a", "i", "j", "a", "n">>],
       [code |-> <<"C", "A">>, name |-> <<"C", "a", "n", "a", "d", "a">>],
       [code |-> <<"C", "N">>, name |-> <<"C", "h", "i", "n", "a">>],
       [code |-> <<"D", "K">>, name |-> <<"D", "e", "n", "m", "a", "r", "k">>],
       [code |-> <<"G", "R">>, name |-> <<"G", "r", "e", "e", "c", "e">>],
       [code |-> <<"G", "B">>, name |-> <<"U", "n", "i", "t", "e", "d", " ", "K", "i", "n", "g", "d", "o", "m">>]
    >>

(***************************************************************************)
(* The style codec                                                         *)
(***************************************************************************)

\* ParseDeclaration splitting at the last ":" of the declaration instead of the
\* first.
ParseDeclarationLastColon(styles, declaration) ==
    LET decl == Strip(declaration)
        last == CHOOSE i \in 0..Len(decl) :
                    /\ i # 0 => decl[i] = ":"
                    /\ \A j \in (i + 1)..Len(decl) : decl[j] # ":"
    IN  IF last # 0
        THEN DictSet(styles, Strip(SubSeq(decl, 1, last - 1)),
                     Strip(SubSeq(decl, last + 1, Len(decl))))
        ELSE styles

\* One pass of parse_style's loop body over a declaration.
ParseDeclaration(styles, declaration) ==
    LET decl == Strip(declaration)
        i == Find(decl, ":")
    IN  IF i # 0
        THEN DictSet(styles, Strip(SubSeq(decl, 1, i - 1)),
                     Strip(SubSeq(decl, i + 1, Len(decl))))
        ELSE styles

RECURSIVE ParseDeclarations(_, _)
ParseDeclarations(styles, decls) ==
    IF decls = <<>> THEN styles
    ELSE ParseDeclarations(ParseDeclaration(styles, Head(decls)), Tail(decls))

\* parse_style(style_str)
ParseStyle(style_str) ==
    IF style_str = <<>> THEN <<>>
    ELSE ParseDeclarations(<<>>, Split(style_str, ";"))

\* style_to_string(styles)
StyleToString(styles) ==
    Join([i \in 1..Len(styles) |-> styles[i].k \o <<":">> \o styles[i].v], <<";">>)

\* An attribute of an element: absent, or present with a str.
Absent == <<>>

Present(s) == <<s>>

\* element.get(name, default)
Get(attr, default) == IF attr = Absent THEN default ELSE attr[1]

\* Python's truth value of an attribute read by element.get(name): None and the
\* empty str are false.
Truthy(attr) == attr # Absent /\ attr[1] # <<>>

FILL == <<"f", "i", "l", "l">>

\* set_fill_color(element, color): the element afterwards.
SetFillColor(element, color) ==
    IF Truthy(element.style)
    THEN [element EXCEPT
            !.style = Present(StyleToString(DictSet(ParseStyle(element.style[1]), FILL, color)))]
    ELSE [element EXCEPT !.fill = Present(color)]

(***************************************************************************)
(* Sorting                                                                 *)
(***************************************************************************)

\* sorted(S) for a set S of str: ascending, the least element first.
RECURSIVE SortedStrs(_)
SortedStrs(S) ==
    IF S = {} THEN <<>>
    ELSE LET least == CHOOSE x \in S : \A y \in S \ {x} : StrLess(x, y)
         IN  <<least>> \o SortedStrs(S \ {least})

\* One insertion of a stable sort of [k, v] items by v: item goes after every
\* item of the sorted sequence whose v is not greater than its own.
RECURSIVE InsertByValue(_, _)
InsertByValue(sorted, item) ==
    IF sorted = <<>> THEN <<item>>
    ELSE IF StrLess(item.v, Head(sorted).v) THEN <<item>> \o sorted
    ELSE <<Head(sorted)>> \o InsertByValue(Tail(sorted), item)

\* The items of a dict in its own (insertion) order.
InInsertionOrder(d) ==
    d

\* sorted(d.items(), key=lambda x: x[1]) for a dict d
RECURSIVE SortedByValue(_)
SortedByValue(d) ==
    IF d = <<>> THEN <<>>
    ELSE InsertByValue(SortedByValue(SubSeq(d, 1, Len(d) - 1)), d[Len(d)])

(***************************************************************************)
(* The legend and the title                                                *)
(***************************************************************************)

\* ColorLabels without the test "color not in color_labels": the last label of
\* a color replaces the first.
RECURSIVE ColorLabelsLastWins(_, _)
ColorLabelsLastWins(color_labels, entries) ==
    IF entries = <<>> THEN color_labels
    ELSE ColorLabelsLastWins(DictSet(color_labels, Head(entries).v.color,
                                     Head(entries).v.label),
                             Tail(entries))

\* color_labels of add_legend: for each color the label of the first entry of
\* data, in its insertion order, that carries the color.
RECURSIVE ColorLabels(_, _)
ColorLabels(color_labels, entries) ==
    IF entries = <<>> THEN color_labels
    ELSE LET info == Head(entries).v
         IN  ColorLabels(IF info.color \notin DictKeys(color_labels)
                         THEN DictSet(color_labels, info.color, info.label)
                         ELSE color_labels,
                         Tail(entries))

\* The legend group add_legend(root, data, legend_x, legend_y, viewbox) appends
\* to the root: one rect and one text per color, in ascending order of label,
\* y_offset growing by 20 from one row to the next.  Coordinates are held as
\* the numbers their attribute strings denote.
LegendGroup(d, x, y, viewbox) ==
    LET color_labels == ColorLabels(<<>>, d)
        vb_height == viewbox[4]
        y0 == IF y = Absent THEN vb_height - (Len(color_labels) * 20 + 30) ELSE y[1]
        items == SortedByValue(color_labels)
    IN  [tag |-> "g", id |-> "legend", ns |-> FALSE,
         rows |-> [i \in 1..Len(items) |->
                     LET y_offset == y0 + 20 * (i - 1)
                     IN  [rect_x |-> x, rect_y |-> y_offset,
                          rect_fill |-> items[i].k,
                          text_x |-> x + 25, text_y |-> y_offset + 11,
                          text |-> items[i].v]]]

\* The text element add_title appends to the root.
TitleNode(text) == [tag |-> "text", ns |-> FALSE, text |-> text]

(***************************************************************************)
(* parse_data                                                              *)
(*                                                                         *)
(* A data file is [ext, json, rows]: the extension os.path.splitext gives, *)
(* the decoded JSON object (a dict of values) of a JSON file and the rows  *)
(* csv.DictReader yields of a CSV file.  A JSON value is                   *)
(* [kind, str, color, label]: a "string" with its str, an "object" with    *)
(* its optional color and label, or an "other" value (a number, a boolean, *)
(* null, a list).  A CSV row is [code, color, label], a column the header  *)
(* lacks being absent.  Files json.load or csv cannot decode are left out. *)
(***************************************************************************)

UpperCase ==
    <<"A", "B", "C", "D", "E", "F", "G", "H", "I", "J", "K", "L", "M", "N", "O", "P", "Q", "R", "S", "T", "U", "V", "W", "X", "Y", "Z">>

LowerCase ==
    <<"a", "b", "c", "d", "e", "f", "g", "h", "i", "j", "k", "l", "m", "n", "o", "p", "q", "r", "s", "t", "u", "v", "w", "x", "y", "z">>

\* s.lower()
ToLower(s) ==
    [i \in 1..Len(s) |->
        IF \E j \in 1..Len(UpperCase) : UpperCase[j] = s[i]
        THEN LowerCase[CHOOSE j \in 1..Len(UpperCase) : UpperCase[j] = s[i]]
        ELSE s[i]]

\* The color an entry without one gets.
ECECEC ==
    <<"#", "e", "c", "e", "c", "e", "c">>

JSON_EXT ==
    <<".", "j", "s", "o", "n">>

CSV_EXT ==
    <<".", "c", "s", "v">>

\* The loop of parse_data over the items of a JSON object.
RECURSIVE ParseJsonItems(_, _)
ParseJsonItems(result, items) ==
    IF items = <<>> THEN result
    ELSE LET code == Head(items).k
             value == Head(items).v
         IN  ParseJsonItems(
                 IF value.kind = "string"
                 THEN DictSet(result, code, [color |-> value.str, label |-> code])
                 ELSE IF value.kind = "object"
                 THEN DictSet(result, code, [color |-> Get(value.color, ECECEC),
                                             label |-> Get(value.label, code)])
                 ELSE result,
                 Tail(items))

\* The loop of parse_data over the rows of a CSV file.
RECURSIVE ParseCsvRows(_, _)
ParseCsvRows(result, rows) ==
    IF rows = <<>> THEN result
    ELSE LET row == Head(rows)
             code == Strip(Get(row.code, <<>>))
             color == Strip(Get(row.color, ECECEC))
             label == Strip(Get(row.label, code))
         IN  ParseCsvRows(IF code # <<>>
                          THEN DictSet(result, code, [color |-> color, label |-> label])
                          ELSE result,
                          Tail(rows))

\* parse_data that reads a file of any other extension as an empty catalog.
ParseDataLenient(file) ==
    LET ext == ToLower(file.ext)
    IN  [raised |-> FALSE,
         result |-> IF ext = JSON_EXT THEN ParseJsonItems(<<>>, file.json)
                    ELSE IF ext = CSV_EXT THEN ParseCsvRows(<<>>, file.rows)
                    ELSE <<>>]

\* parse_data(data_path): the dict it returns, or the ValueError it raises.
ParseData(file) ==
    LET ext == ToLower(file.ext)
    IN  IF ext = JSON_EXT
        THEN [raised |-> FALSE, result |-> ParseJsonItems(<<>>, file.json)]
        ELSE IF ext = CSV_EXT
        THEN [raised |-> FALSE, result |-> ParseCsvRows(<<>>, file.rows)]
        ELSE [raised |-> TRUE, result |-> <<>>]

\* get_viewbox(root): the attributes of the root are held as the numbers they
\* denote, viewBox as the list of its whitespace-separated parts.
GetViewbox(attrs) ==
    IF attrs.viewBox # Absent /\ Len(attrs.viewBox[1]) = 4
    THEN attrs.viewBox[1]
    ELSE <<0, 0, Get(attrs.width, 800), Get(attrs.height, 600)>>

(***************************************************************************)
(* color_map                                                               *)
(***************************************************************************)

VARIABLES
    data,              \* the catalog parse_data returned: code -> [color, label]
    default_color,     \* the default_color argument
    add_legend_flag,   \* the add_legend_flag argument
    title_text,        \* the title_text argument: absent (None) or a str
    root_ns,           \* whether the root element is in the SVG namespace
    elements,          \* the path elements of the tree, in document order
    appended,          \* the elements add_legend and add_title appended to the root
    parsed,            \* the path elements as ET.parse read them for this run
    paths,             \* the list paths: indices into elements
    pos,               \* how many entries of paths the loop has visited
    colored_count,
    multi_path_count,
    matched_codes,
    pc,                \* the place color_map has reached
    run,               \* which run of color_map this is
    output,            \* the document written to output_path: absent or present
    returned,          \* the statistics each finished run returned
    element,           \* style codec: the element set_fill_color is applied to
    color_arg,         \* style codec: the color it is given
    styles,            \* style codec: a styles dict
    style_str,         \* style codec: style_to_string(styles), once computed
    reparsed,          \* style codec: parse_style(style_str), once computed
    codec_pc,          \* style codec: the step reached
    input_file,        \* the file at input_path: absent, or present with its document
    data_file,         \* the file at data_path: absent, or present with its content
    error,             \* the exception color_map raised: absent or present
    legend_x,          \* the legend_x argument
    legend_y,          \* the legend_y argument: absent (None) or a number
    root_attrs         \* the viewBox, width and height attributes of the root

walkVars == <<data, default_color, add_legend_flag, title_text, root_ns, elements,
              appended, parsed, paths, pos, colored_count, multi_path_count,
              matched_codes, pc, run, output, returned>>

codecVars == <<element, color_arg, styles, style_str, reparsed, codec_pc>>

fileVars == <<input_file, data_file, error>>

layoutVars == <<legend_x, legend_y, root_attrs>>

vars == <<walkVars, codecVars, fileVars, layoutVars>>

\* class_to_code = {v: k for k, v in MULTI_PATH_CLASSES.items()}
class_to_code ==
    [i \in 1..Len(MULTI_PATH_CLASSES) |->
        [k |-> MULTI_PATH_CLASSES[i].name, v |-> MULTI_PATH_CLASSES[i].code]]

\* Resolve without the test "code in data" of the class branch: an alias code
\* that is no catalog key is matched, with a fallback color.
ResolveAliasUnchecked(d, path_id, path_class) ==
    IF path_id \in DictKeys(d)
    THEN [color |-> Present(DictGet(d, path_id).color),
          matched_code |-> Present(path_id), multi |-> FALSE]
    ELSE IF path_class \in DictKeys(class_to_code)
    THEN LET code == DictGet(class_to_code, path_class)
         IN  [color |-> Present(IF code \in DictKeys(d) THEN DictGet(d, code).color
                                ELSE <<"#", "e">>),
              matched_code |-> Present(code), multi |-> TRUE]
    ELSE [color |-> Absent, matched_code |-> Absent, multi |-> FALSE]

\* The id-then-class lookup of one path: color and matched_code (absent for
\* None) and whether multi_path_count is incremented.
Resolve(d, path_id, path_class) ==
    IF path_id \in DictKeys(d)
    THEN [color |-> Present(DictGet(d, path_id).color),
          matched_code |-> Present(path_id), multi |-> FALSE]
    ELSE IF path_class \in DictKeys(class_to_code)
    THEN LET code == DictGet(class_to_code, path_class)
         IN  IF code \in DictKeys(d)
             THEN [color |-> Present(DictGet(d, code).color),
                   matched_code |-> Present(code), multi |-> TRUE]
             ELSE [color |-> Absent, matched_code |-> Absent, multi |-> FALSE]
    ELSE [color |-> Absent, matched_code |-> Absent, multi |-> FALSE]

\* A test that takes every path to be without an explicit fill.
NoFillAssumed(path) ==
    TRUE

\* The test with "no fill attribute" in place of "no or an empty fill attribute".
NoFillAttribute(path) ==
    /\ path.fill = Absent
    /\ ~Contains(Get(path.style, <<>>), <<"f", "i", "l", "l", ":">>)

\* The test before the default fill: the path has no explicit fill.
NoExplicitFill(path) ==
    /\ ~Truthy(path.fill)
    /\ ~Contains(Get(path.style, <<>>), FILL \o <<":">>)

\* The members of a set of indices in ascending (document) order.
RECURSIVE InDocumentOrder(_)
InDocumentOrder(S) ==
    IF S = {} THEN <<>>
    ELSE LET first == CHOOSE x \in S : \A y \in S : x <= y
         IN  <<first>> \o InDocumentOrder(S \ {first})

\* A query that returns the path elements of both kinds.
FindPathsBoth(elems) ==
    InDocumentOrder(1..Len(elems))

\* root.findall of the namespaced path query, else of the unqualified one.
FindPaths(elems) ==
    LET Indices(S) == InDocumentOrder(S)
        namespaced == {i \in 1..Len(elems) : elems[i].ns}
        unqualified == {i \in 1..Len(elems) : ~elems[i].ns}
    IN  IF namespaced # {} THEN Indices(namespaced) ELSE Indices(unqualified)

\* The statistics color_map returns.
Stats ==
    LET unmatched_codes == DictKeys(data) \ matched_codes
    IN  [colored |-> colored_count,
         multi_path |-> multi_path_count,
         unmatched |-> Cardinality(unmatched_codes),
         unmatched_codes |-> SortedStrs(unmatched_codes)]

\* What ET.parse reads back from a document tree.write wrote with the SVG
\* namespace registered as the default one: when any element of the tree is in
\* the SVG namespace the root declares it as the default namespace, and every
\* unqualified element is read back as an element of it.
Reparse(doc) ==
    LET any_svg == doc.root_ns \/ \E i \in 1..Len(doc.elements) : doc.elements[i].ns
    IN  [root_ns |-> any_svg,
         elements |-> [i \in 1..Len(doc.elements) |->
                         [doc.elements[i] EXCEPT !.ns = any_svg]],
         appended |-> [i \in 1..Len(doc.appended) |->
                         [doc.appended[i] EXCEPT !.ns = any_svg]]]

\* The queries for the path elements.
QueryPaths ==
    /\ pc = "find"
    /\ paths' = FindPaths(elements)
    /\ pc' = "walk"
    /\ UNCHANGED <<data, default_color, add_legend_flag, title_text, root_ns,
                   elements, appended, parsed, pos, colored_count,
                   multi_path_count, matched_codes, run, output, returned>>
    /\ UNCHANGED <<codecVars, fileVars, layoutVars>>

\* A loop body that colors only the first path of a code: a path whose code
\* is matched already is passed over.
LoopBodyOncePerCode(acc, idx, d, default) ==
    LET path == acc.elements[idx]
        path_id == Strip(Get(path.id, <<>>))
        path_class == Strip(Get(path.class, <<>>))
        r == Resolve(d, path_id, path_class)
    IN  IF Truthy(r.color) /\ r.matched_code[1] \notin acc.matched_codes
        THEN [elements |-> [acc.elements EXCEPT ![idx] = SetFillColor(path, r.color[1])],
              colored_count |-> acc.colored_count + 1,
              multi_path_count |-> acc.multi_path_count + (IF r.multi THEN 1 ELSE 0),
              matched_codes |-> acc.matched_codes \cup {r.matched_code[1]}]
        ELSE acc

\* The body of the loop over paths, for the path at index idx: what it makes
\* of the elements and the three counters, held in acc.
LoopBody(acc, idx, d, default) ==
    LET path == acc.elements[idx]
        path_id == Strip(Get(path.id, <<>>))
        path_class == Strip(Get(path.class, <<>>))
        r == Resolve(d, path_id, path_class)
    IN  IF Truthy(r.color)
        THEN [elements |-> [acc.elements EXCEPT ![idx] = SetFillColor(path, r.color[1])],
              colored_count |-> acc.colored_count + 1,
              multi_path_count |-> acc.multi_path_count + (IF r.multi THEN 1 ELSE 0),
              matched_codes |-> acc.matched_codes \cup {r.matched_code[1]}]
        ELSE [elements |-> IF NoExplicitFill(path)
                           THEN [acc.elements EXCEPT ![idx] = SetFillColor(path, default)]
                           ELSE acc.elements,
              colored_count |-> acc.colored_count,
              multi_path_count |-> acc.multi_path_count + (IF r.multi THEN 1 ELSE 0),
              matched_codes |-> acc.matched_codes]

\* The whole loop over the paths in a given order.
RECURSIVE WalkPaths(_, _, _, _)
WalkPaths(acc, order, d, default) ==
    IF order = <<>> THEN acc
    ELSE WalkPaths(LoopBody(acc, Head(order), d, default), Tail(order), d, default)

\* The orders in which the members of a sequence can be visited.
VisitOrders(s) ==
    {p \in [1..Len(s) -> {s[i] : i \in 1..Len(s)}] :
        \A i, j \in 1..Len(s) : p[i] = p[j] => i = j}

\* The queries for the path elements, the paths found put in any order.
QueryPathsPermuted ==
    /\ pc = "find"
    /\ paths' \in VisitOrders(FindPaths(elements))
    /\ pc' = "walk"
    /\ UNCHANGED <<data, default_color, add_legend_flag, title_text, root_ns,
                   elements, appended, parsed, pos, colored_count, multi_path_count,
                   matched_codes, run, output, returned>>
    /\ UNCHANGED <<codecVars, fileVars, layoutVars>>

\* One iteration of the loop over paths.
ColorPath ==
    /\ pc = "walk"
    /\ pos < Len(paths)
    /\ LET after == LoopBody([elements |-> elements,
                              colored_count |-> colored_count,
                              multi_path_count |-> multi_path_count,
                              matched_codes |-> matched_codes],
                             paths[pos + 1], data, default_color)
       IN  /\ elements' = after.elements
           /\ colored_count' = after.colored_count
           /\ multi_path_count' = after.multi_path_count
           /\ matched_codes' = after.matched_codes
    /\ pos' = pos + 1
    /\ UNCHANGED <<data, default_color, add_legend_flag, title_text, root_ns,
                   appended, parsed, paths, pc, run, output, returned>>
    /\ UNCHANGED <<codecVars, fileVars, layoutVars>>

\* AddLegend placed inside the loop: it does not wait for the last path.
AddLegendEarly ==
    /\ pc = "walk"
    /\ appended' = IF add_legend_flag
                   THEN Append(appended, LegendGroup(data, legend_x, legend_y, GetViewbox(root_attrs)))
                   ELSE appended
    /\ pc' = "title"
    /\ UNCHANGED <<data, default_color, add_legend_flag, title_text, root_ns,
                   elements, parsed, paths, pos, colored_count, multi_path_count,
                   matched_codes, run, output, returned>>
    /\ UNCHANGED <<codecVars, fileVars, layoutVars>>

\* After the loop: the legend, if requested.
AddLegend ==
    /\ pc = "walk"
    /\ pos = Len(paths)
    /\ appended' = IF add_legend_flag
                   THEN Append(appended, LegendGroup(data, legend_x, legend_y, GetViewbox(root_attrs)))
                   ELSE appended
    /\ pc' = "title"
    /\ UNCHANGED <<data, default_color, add_legend_flag, title_text, root_ns,
                   elements, parsed, paths, pos, colored_count, multi_path_count,
                   matched_codes, run, output, returned>>
    /\ UNCHANGED <<codecVars, fileVars, layoutVars>>

\* The title, if provided.
AddTitle ==
    /\ pc = "title"
    /\ appended' = IF Truthy(title_text)
                   THEN Append(appended, TitleNode(title_text[1]))
                   ELSE appended
    /\ pc' = "write"
    /\ UNCHANGED <<data, default_color, add_legend_flag, title_text, root_ns,
                   elements, parsed, paths, pos, colored_count, multi_path_count,
                   matched_codes, run, output, returned>>
    /\ UNCHANGED <<codecVars, fileVars, layoutVars>>

\* tree.write(output_path) and the return of the statistics.
WriteOutput ==
    /\ pc = "write"
    /\ output' = Present([root_ns |-> root_ns, elements |-> elements,
                          appended |-> appended])
    /\ returned' = Append(returned, Stats)
    /\ pc' = "done"
    /\ UNCHANGED <<data, default_color, add_legend_flag, title_text, root_ns,
                   elements, appended, parsed, paths, pos, colored_count,
                   multi_path_count, matched_codes, run>>
    /\ UNCHANGED <<codecVars, fileVars, layoutVars>>

\* color_map called a second time with the same data file and options, its
\* input the document the first run wrote.
Rerun ==
    /\ pc = "done"
    /\ run = 1
    /\ LET doc == Reparse(output[1])
       IN  /\ root_ns' = doc.root_ns
           /\ elements' = doc.elements
           /\ parsed' = doc.elements
           /\ appended' = doc.appended
    /\ paths' = <<>>
    /\ pos' = 0
    /\ colored_count' = 0
    /\ multi_path_count' = 0
    /\ matched_codes' = {}
    /\ run' = run + 1
    /\ pc' = "find"
    /\ UNCHANGED <<data, default_color, add_legend_flag, title_text, output, returned>>
    /\ UNCHANGED <<codecVars, fileVars, layoutVars>>

\* The checks at the entry of color_map that both files exist.
Validate ==
    /\ pc = "start"
    /\ IF input_file = Absent
       THEN /\ error' = Present("FileNotFoundError: Input SVG file not found")
            /\ pc' = "error"
       ELSE IF data_file = Absent
       THEN /\ error' = Present("FileNotFoundError: Data file not found")
            /\ pc' = "error"
       ELSE /\ error' = error
            /\ pc' = "parse_data"
    /\ UNCHANGED <<data, default_color, add_legend_flag, title_text, root_ns,
                   elements, appended, parsed, paths, pos, colored_count,
                   multi_path_count, matched_codes, run, output, returned>>
    /\ UNCHANGED <<input_file, data_file>>
    /\ UNCHANGED <<codecVars, layoutVars>>

\* parse_data, then ET.parse of the input document.
LoadInputs ==
    /\ pc = "parse_data"
    /\ LET r == ParseData(data_file[1])
       IN  IF r.raised
           THEN /\ error' = Present("ValueError: Unsupported data format")
                /\ pc' = "error"
                /\ UNCHANGED <<data, root_ns, elements, parsed>>
           ELSE /\ data' = r.result
                /\ root_ns' = input_file[1].root_ns
                /\ elements' = input_file[1].elements
                /\ parsed' = input_file[1].elements
                /\ error' = error
                /\ pc' = "find"
    /\ UNCHANGED <<default_color, add_legend_flag, title_text, appended, paths, pos,
                   colored_count, multi_path_count, matched_codes, run, output,
                   returned>>
    /\ UNCHANGED <<input_file, data_file>>
    /\ UNCHANGED <<codecVars, layoutVars>>

(***************************************************************************)
(* The style codec on its own                                              *)
(***************************************************************************)

\* set_fill_color(element, color_arg)
CallSetFillColor ==
    /\ codec_pc = "element"
    /\ element' = SetFillColor(element, color_arg)
    /\ codec_pc' = "filled"
    /\ UNCHANGED <<color_arg, styles, style_str, reparsed>>
    /\ UNCHANGED <<walkVars, fileVars, layoutVars>>

\* style_str = style_to_string(styles)
CallStyleToString ==
    /\ codec_pc = "styles"
    /\ style_str' = Present(StyleToString(styles))
    /\ codec_pc' = "serialized"
    /\ UNCHANGED <<element, color_arg, styles, reparsed>>
    /\ UNCHANGED <<walkVars, fileVars, layoutVars>>

\* reparsed = parse_style(style_str)
CallParseStyle ==
    /\ codec_pc = "serialized"
    /\ reparsed' = Present(ParseStyle(style_str[1]))
    /\ codec_pc' = "parsed"
    /\ UNCHANGED <<element, color_arg, styles, style_str>>
    /\ UNCHANGED <<walkVars, fileVars, layoutVars>>

(***************************************************************************)
(* Inputs                                                                  *)
(***************************************************************************)

US == <<"U", "S">>
CA == <<"C", "A">>
Canada == <<"C", "a", "n", "a", "d", "a">>
Color1 == <<"#", "1">>
Color2 == <<"#", "2">>
Red == <<"r">>

\* The most path elements of a document of Spec.
MaxPaths == 2

\* The most path elements of a document of SpecFill.
MaxStyledPaths == 1

\* The most entries of a catalog.
MaxCatalog == 2

\* The most properties of a styles dict of SpecStyle.
MaxProps == 2

MaxEntries == 2

\* The sequences of at most n members of S.
SeqsUpTo(S, n) == UNION {[1..k -> S] : k \in 0..n}

\* The catalogs parse_data builds from the simple format (the label is the
\* code): at most n entries with distinct codes.
Catalogs(codes, colors, n) ==
    {d \in SeqsUpTo({[k |-> c, v |-> [color |-> col, label |-> c]] :
                        c \in codes, col \in colors}, n) :
        \A i, j \in 1..Len(d) : i # j => d[i].k # d[j].k}

\* Path elements that differ in id, class and namespace.
MatchElements ==
    {[id |-> i, class |-> c, fill |-> Absent, style |-> Absent, ns |-> n] :
        i \in {Absent, Present(US), Present(<<" ">> \o CA \o <<" ">>)},
        c \in {Absent, Present(Canada)},
        n \in BOOLEAN}

\* Style attributes: none, empty, blank, without fill, with fill, with fill
\* spaced before the colon, with a segment that is no declaration, with the
\* text of a fill declaration inside the value of another property.
StyleInputs ==
    {Absent, Present(<<>>), Present(<<" ">>),
     Present(<<"a", ":", "b">>),
     Present(FILL \o <<":">> \o Red),
     Present(<<"a", ":", "b", ";", " ">> \o FILL \o <<" ", ":", " ">> \o Red),
     Present(<<"a", ";">> \o FILL \o <<":">> \o Red \o <<";">>),
     Present(<<"a", ":">> \o FILL \o <<":">> \o Red)}

\* Path elements that differ in fill and style.
StyledElements ==
    {[id |-> i, class |-> Absent, fill |-> f, style |-> s, ns |-> FALSE] :
        i \in {Absent, Present(US)},
        f \in {Absent, Present(<<>>), Present(Red)},
        s \in StyleInputs}

\* The options of a run: with or without legend and title.
Options ==
    {[add_legend_flag |-> FALSE, title_text |-> Absent],
     [add_legend_flag |-> TRUE, title_text |-> Present(<<"T">>)]}

\* Property names and values of a styles dict.
PropInputs == {FILL, <<"a">>, <<" ", "a">>, <<"a", ":", "b">>, <<>>}

ValueInputs == {Red, <<" ">> \o Red, <<"a", ";", "b">>, <<"u", ":", "v">>, <<>>}

StyleMaps ==
    {m \in SeqsUpTo({[k |-> p, v |-> x] : p \in PropInputs, x \in ValueInputs}, MaxProps) :
        \A i, j \in 1..Len(m) : i # j => m[i].k # m[j].k}

NoElement == [id |-> Absent, class |-> Absent, fill |-> Absent, style |-> Absent, ns |-> FALSE]

\* A JSON file of the extended format that parse_data reads as catalog d.
JsonFileOf(d) ==
    [ext |-> JSON_EXT,
     json |-> [i \in 1..Len(d) |->
                 [k |-> d[i].k,
                  v |-> [kind |-> "object", str |-> <<>>,
                         color |-> Present(d[i].v.color),
                         label |-> Present(d[i].v.label)]]],
     rows |-> <<>>]

\* The state of color_map once it has read both files: a document of the given
\* path elements and a catalog.
WalkInit(docs, catalogs) ==
    /\ data \in catalogs
    /\ default_color = <<"#", "e">>
    /\ \E o \in Options :
          /\ add_legend_flag = o.add_legend_flag
          /\ title_text = o.title_text
    /\ root_ns \in BOOLEAN
    /\ elements \in docs
    /\ appended = <<>>
    /\ parsed = elements
    /\ paths = <<>>
    /\ pos = 0
    /\ colored_count = 0
    /\ multi_path_count = 0
    /\ matched_codes = {}
    /\ pc = "find"
    /\ run = 1
    /\ output = Absent
    /\ returned = <<>>
    /\ input_file = Present([root_ns |-> root_ns, elements |-> elements])
    /\ data_file = Present(JsonFileOf(data))
    /\ error = Absent

\* The default legend position, on a root without viewBox, width and height.
DefaultLayout ==
    /\ legend_x = 50
    /\ legend_y = Absent
    /\ root_attrs = [viewBox |-> Absent, width |-> Absent, height |-> Absent]

CodecIdle ==
    /\ element = NoElement
    /\ color_arg = <<>>
    /\ styles = <<>>
    /\ style_str = Absent
    /\ reparsed = Absent
    /\ codec_pc = "idle"

WalkIdle ==
    /\ data = <<>>
    /\ default_color = <<>>
    /\ add_legend_flag = FALSE
    /\ title_text = Absent
    /\ root_ns = FALSE
    /\ elements = <<>>
    /\ appended = <<>>
    /\ parsed = <<>>
    /\ paths = <<>>
    /\ pos = 0
    /\ colored_count = 0
    /\ multi_path_count = 0
    /\ matched_codes = {}
    /\ pc = "idle"
    /\ run = 1
    /\ output = Absent
    /\ returned = <<>>
    /\ input_file = Absent
    /\ data_file = Absent
    /\ error = Absent
    /\ DefaultLayout

\* color_map on documents whose paths differ in id, class and namespace.
Init ==
    /\ WalkInit(SeqsUpTo(MatchElements, MaxPaths), Catalogs({US, CA}, {<<>>, Color1}, MaxCatalog))
    /\ DefaultLayout
    /\ CodecIdle

\* color_map on documents whose paths differ in fill and style.
InitFill ==
    /\ WalkInit(SeqsUpTo(StyledElements, MaxStyledPaths), Catalogs({US}, {<<>>, Color1}, MaxCatalog))
    /\ DefaultLayout
    /\ CodecIdle

\* The style codec: set_fill_color on an element, or a styles dict serialized
\* and parsed back.
InitStyle ==
    /\ WalkIdle
    /\ color_arg \in {<<>>, Color1}
    /\ style_str = Absent
    /\ reparsed = Absent
    /\ codec_pc \in {"element", "styles"}
    /\ IF codec_pc = "element"
       THEN /\ element \in {e \in StyledElements : e.id = Absent}
            /\ styles = <<>>
       ELSE /\ element = NoElement
            /\ styles \in StyleMaps

\* The catalogs of the extended format: labels given apart from the codes.
LabelledCatalogs(codes, colors, labels, n) ==
    {d \in SeqsUpTo({[k |-> c, v |-> [color |-> col, label |-> l]] :
                        c \in codes, col \in colors, l \in labels}, n) :
        \A i, j \in 1..Len(d) : i # j => d[i].k # d[j].k}

\* Attributes of the root element: none of viewBox, width and height; a viewBox
\* of four numbers; a viewBox of three numbers beside a height.
RootAttrs ==
    {[viewBox |-> Absent, width |-> Absent, height |-> Absent],
     [viewBox |-> Present(<<0, 0, 200, 100>>), width |-> Absent, height |-> Absent],
     [viewBox |-> Present(<<0, 0, 200>>), width |-> Absent, height |-> Present(300)]}

\* color_map on catalogs whose entries share colors and labels, at a given or
\* a default legend position.
InitLegend ==
    /\ WalkInit(SeqsUpTo({[id |-> Present(US), class |-> Absent, fill |-> Absent,
                           style |-> Absent, ns |-> FALSE]}, 1),
                LabelledCatalogs({US, CA, <<"Z", "Z">>}, {Color1, Color2},
                                 {<<"A">>, <<"B">>}, MaxCatalog))
    /\ legend_x \in {50, 10}
    /\ legend_y \in {Absent, Present(100)}
    /\ root_attrs \in RootAttrs
    /\ CodecIdle

\* The values of a JSON object: strings, objects with and without color and
\* label, and a number.
JsonValues ==
    {[kind |-> "string", str |-> Color1, color |-> Absent, label |-> Absent],
     [kind |-> "object", str |-> <<>>, color |-> Absent, label |-> Absent],
     [kind |-> "object", str |-> <<>>, color |-> Present(Color2),
      label |-> Present(<<"A">>)],
     [kind |-> "other", str |-> <<>>, color |-> Absent, label |-> Absent]}

\* Decoded JSON objects of at most n entries: the keys of an object are distinct.
JsonObjects(n) ==
    {o \in SeqsUpTo({[k |-> c, v |-> v] : c \in {US, CA, Canada}, v \in JsonValues}, n) :
        \A i, j \in 1..Len(o) : o[i].k = o[j].k => i = j}

\* Rows of a CSV file: a padded code, an empty code, a file without the columns.
CsvRows ==
    {[code |-> Present(US), color |-> Absent, label |-> Absent],
     [code |-> Present(<<" ">> \o US \o <<" ">>), color |-> Present(<<" ">> \o Color1),
      label |-> Present(<<"A">>)],
     [code |-> Present(<<" ">>), color |-> Present(Color1), label |-> Absent],
     [code |-> Absent, color |-> Absent, label |-> Absent]}

\* Data files: JSON and CSV files under extensions of either case, and a file
\* of an extension parse_data does not support.
DataFiles ==
    {[ext |-> e, json |-> o, rows |-> <<>>] :
        e \in {JSON_EXT, <<".", "J", "S", "O", "N">>}, o \in JsonObjects(MaxEntries)}
    \cup {[ext |-> CSV_EXT, json |-> <<>>, rows |-> r] : r \in SeqsUpTo(CsvRows, MaxEntries)}
    \cup {[ext |-> <<".", "t", "x", "t">>, json |-> <<>>, rows |-> <<>>]}

\* Documents of at most one path element, with the id or the class of a region.
LoadDocuments ==
    SeqsUpTo({[id |-> Present(US), class |-> Absent, fill |-> Absent, style |-> Absent,
               ns |-> TRUE],
              [id |-> Absent, class |-> Present(Canada), fill |-> Absent,
               style |-> Absent, ns |-> TRUE]}, 1)

\* The state at the call of color_map: either file may be missing.
InitLoad ==
    /\ input_file \in {Absent} \cup
                      {Present([root_ns |-> TRUE, elements |-> d]) : d \in LoadDocuments}
    /\ data_file \in {Absent} \cup {Present(f) : f \in DataFiles}
    /\ error = Absent
    /\ data = <<>>
    /\ default_color = <<"#", "e">>
    /\ \E o \in Options :
          /\ add_legend_flag = o.add_legend_flag
          /\ title_text = o.title_text
    /\ root_ns = FALSE
    /\ elements = <<>>
    /\ appended = <<>>
    /\ parsed = <<>>
    /\ paths = <<>>
    /\ pos = 0
    /\ colored_count = 0
    /\ multi_path_count = 0
    /\ matched_codes = {}
    /\ pc = "start"
    /\ run = 1
    /\ output = Absent
    /\ returned = <<>>
    /\ DefaultLayout
    /\ CodecIdle

\* Paths that resolve by id, with and without a style, by class, or not at
\* all, the last one with a fill of its own.
PermElements ==
    {[id |-> Present(US), class |-> Absent, fill |-> Absent, style |-> Absent,
      ns |-> FALSE],
     [id |-> Present(US), class |-> Absent, fill |-> Absent,
      style |-> Present(<<"a", ":", "b">>), ns |-> FALSE],
     [id |-> Absent, class |-> Present(Canada), fill |-> Absent, style |-> Absent,
      ns |-> FALSE],
     [id |-> Absent, class |-> Absent, fill |-> Present(Red), style |-> Absent,
      ns |-> FALSE]}

\* color_map on documents whose paths are visited in any order.
InitPerm ==
    /\ WalkInit(SeqsUpTo(PermElements, MaxPaths),
                Catalogs({US, CA}, {<<>>, Color1}, MaxCatalog))
    /\ DefaultLayout
    /\ CodecIdle

Next ==
    \/ QueryPaths
    \/ ColorPath
    \/ AddLegend
    \/ AddTitle
    \/ WriteOutput
    \/ Rerun

NextStyle ==
    \/ CallSetFillColor
    \/ CallStyleToString
    \/ CallParseStyle

NextLoad ==
    \/ Validate
    \/ LoadInputs
    \/ QueryPaths
    \/ ColorPath
    \/ AddLegend
    \/ AddTitle
    \/ WriteOutput

NextPerm ==
    \/ QueryPathsPermuted
    \/ ColorPath
    \/ AddLegend
    \/ AddTitle
    \/ WriteOutput

Spec == Init /\ [][Next]_vars

SpecPerm == InitPerm /\ [][NextPerm]_vars

SpecLoad == InitLoad /\ [][NextLoad]_vars

SpecFill == InitFill /\ [][Next]_vars

SpecStyle == InitStyle /\ [][NextStyle]_vars

SpecLegend == InitLegend /\ [][Next]_vars

(***************************************************************************)
(* The claims                                                              *)
(***************************************************************************)

\* The catalog keys.
Keys == DictKeys(data)

\* The indices of the path elements the loop has visited.
Visited == {paths[k] : k \in 1..pos}

TrimmedId(e) == Strip(Get(e.id, <<>>))

TrimmedClass(e) == Strip(Get(e.class, <<>>))

\* The element's class is the alias name of a code of the catalog.
AliasInCatalog(e) ==
    \E i \in 1..Len(MULTI_PATH_CLASSES) :
        /\ MULTI_PATH_CLASSES[i].name = TrimmedClass(e)
        /\ MULTI_PATH_CLASSES[i].code \in Keys

\* The code the element resolves to, id first: absent when there is none.
ResolvedCode(e) ==
    IF TrimmedId(e) \in Keys THEN Present(TrimmedId(e))
    ELSE IF AliasInCatalog(e)
    THEN Present((CHOOSE a \in {MULTI_PATH_CLASSES[i] : i \in 1..Len(MULTI_PATH_CLASSES)} :
                    a.name = TrimmedClass(e)).code)
    ELSE Absent

\* The element resolves through the class-alias lookup.
ViaAlias(e) == TrimmedId(e) \notin Keys /\ AliasInCatalog(e)

ColorOf(code) == DictGet(data, code).color

\* The statistics the current run returned.
LastStats == returned[Len(returned)]

\* A step of the loop over paths (the only step from "walk" to "walk").
IsColorPathStep == pc = "walk" /\ pc' = "walk"

\* C1: after set_fill_color(element, color), whatever fill and style the element
\* carried, it does not have both a fill attribute and a style attribute that
\* contains "fill:".
C1_NoFillInBothPlaces ==
    codec_pc = "filled" =>
        ~(element.fill # Absent /\ Contains(Get(element.style, <<>>), FILL \o <<":">>))

\* C2: in every iteration of the loop, multi_path_count is incremented (by one)
\* exactly when the path resolves through the class-alias lookup and is counted
\* in colored_count; so the count is the number of paths colored through the
\* alias lookup.
C2_MultiPathCountsAliasColored ==
    [][IsColorPathStep =>
        LET e == elements[paths[pos + 1]]
        IN  /\ multi_path_count' \in {multi_path_count, multi_path_count + 1}
            /\ (multi_path_count' = multi_path_count + 1) <=>
                   (ViaAlias(e) /\ colored_count' = colored_count + 1)]_vars

\* C3: when color_map returns, the matched codes are catalog keys,
\* unmatched_codes lists exactly the catalog keys that are not matched, in
\* ascending order and without repetition, unmatched is |catalog| - |matched|,
\* and every catalog code that no visited path resolves to is in
\* unmatched_codes.
C3_UnmatchedIsCatalogMinusMatched ==
    pc = "done" =>
        LET u == LastStats.unmatched_codes
        IN  /\ matched_codes \subseteq Keys
            /\ {u[i] : i \in 1..Len(u)} = Keys \ matched_codes
            /\ \A i, j \in 1..Len(u) : i < j => StrLess(u[i], u[j])
            /\ LastStats.unmatched = Cardinality(Keys) - Cardinality(matched_codes)
            /\ \A code \in Keys :
                  (\A idx \in Visited : ResolvedCode(parsed[idx]) # Present(code))
                      => \E i \in 1..Len(u) : u[i] = code

\* C3's case: a run has ended that visited a path, both codes of the catalog
\* are unmatched and they are reported in an order other than the catalog's.
C3_Witness ==
    /\ pc = "done"
    /\ pos >= 1
    /\ Len(data) = 2
    /\ data[1].k = US
    /\ LastStats.unmatched_codes = <<CA, US>>

\* C4: every visited path whose resolved code exists has that code's catalog
\* color applied by set_fill_color, its code is in the matched set, and
\* colored_count is the number of such paths; whatever the color string,
\* the empty one included.
C4_ResolvedPathsAreColored ==
    /\ \A idx \in Visited :
          LET code == ResolvedCode(parsed[idx])
          IN  code # Absent =>
                  /\ elements[idx] = SetFillColor(parsed[idx], ColorOf(code[1]))
                  /\ code[1] \in matched_codes
    /\ colored_count = Cardinality({idx \in Visited : ResolvedCode(parsed[idx]) # Absent})

\* C5: a visited path that resolves to no catalog code has the default color
\* applied if and only if it has neither a fill attribute (read as the code
\* reads it: a non-empty one) nor a fill declaration in its style, however the
\* declaration is spaced; otherwise it is left as it was; and such paths are
\* not counted in colored_count.
C5_DefaultOnlyWithoutExplicitFill ==
    /\ \A idx \in Visited :
          LET e == parsed[idx]
          IN  ResolvedCode(e) = Absent =>
                  IF ~Truthy(e.fill) /\ FILL \notin DictKeys(ParseStyle(Get(e.style, <<>>)))
                  THEN elements[idx] = SetFillColor(e, default_color)
                  ELSE elements[idx] = e
    /\ colored_count <= Cardinality({idx \in Visited : ResolvedCode(parsed[idx]) # Absent})

\* C6: in every iteration of the loop, a path whose trimmed id is a catalog key
\* receives that id's color and multi_path_count is not incremented, whatever
\* its class; multi_path_count is incremented only when the id is no catalog
\* key and the class is the alias of a code of the catalog.
C6_IdFirstClassFallback ==
    [][IsColorPathStep =>
        LET idx == paths[pos + 1]
            e == elements[idx]
        IN  /\ TrimmedId(e) \in Keys =>
                  /\ elements'[idx] = SetFillColor(e, ColorOf(TrimmedId(e)))
                  /\ multi_path_count' = multi_path_count
            /\ multi_path_count' # multi_path_count =>
                  /\ TrimmedId(e) \notin Keys
                  /\ AliasInCatalog(e)]_vars

\* C7: when color_map returns, for every alias code of the catalog the visited
\* paths whose class is the code's alias name and whose id is no catalog key
\* all have the code's color applied, the code is matched (not in
\* unmatched_codes) when there is such a path, and colored_count and
\* multi_path_count have grown by one for each such path.
C7_AliasPathsAllColored ==
    pc = "done" =>
        LET AliasPaths(a) ==
                {idx \in Visited : /\ TrimmedId(parsed[idx]) \notin Keys
                                   /\ TrimmedClass(parsed[idx]) = a.name}
            u == LastStats.unmatched_codes
        IN  /\ \A i \in 1..Len(MULTI_PATH_CLASSES) :
                  LET a == MULTI_PATH_CLASSES[i]
                  IN  a.code \in Keys =>
                          /\ \A idx \in AliasPaths(a) :
                                elements[idx] = SetFillColor(parsed[idx], ColorOf(a.code))
                          /\ AliasPaths(a) # {} =>
                                /\ a.code \in matched_codes
                                /\ \A k \in 1..Len(u) : u[k] # a.code
            /\ LastStats.multi_path = Cardinality({idx \in Visited : ViaAlias(parsed[idx])})
            /\ LastStats.colored =
                   Cardinality({idx \in Visited : TrimmedId(parsed[idx]) \in Keys})
                   + Cardinality({idx \in Visited : ViaAlias(parsed[idx])})

\* Keys and values as parse_style produces them: trimmed, without ";", the keys
\* without ":".
Normalised(m) ==
    \A i \in 1..Len(m) :
        /\ Strip(m[i].k) = m[i].k
        /\ Strip(m[i].v) = m[i].v
        /\ Find(m[i].k, ";") = 0
        /\ Find(m[i].v, ";") = 0
        /\ Find(m[i].k, ":") = 0

\* C8 as stated: for every styles dict m, parse_style(style_to_string(m)) = m.
C8_RoundTrip ==
    codec_pc = "parsed" => reparsed[1] = styles

\* C8 as amended: for every styles dict m whose keys and values are trimmed and
\* hold no ";" and whose keys hold no ":", parse_style(style_to_string(m)) = m:
\* the same keys, values and order.
C8_RoundTripNormalised ==
    (codec_pc = "parsed" /\ Normalised(styles)) => reparsed[1] = styles

\* C8's case: a dict of two such properties, one value holding ":", has been
\* serialized and parsed back.
C8_Witness ==
    /\ codec_pc = "parsed"
    /\ Normalised(styles)
    /\ Len(styles) = 2
    /\ \E i \in 1..2 : Find(styles[i].v, ":") # 0

\* C9: a second run of color_map on the output of the first, with the same
\* catalog, returns the same colored and unmatched counts as the first.
C9_SecondRunSameCounts ==
    Len(returned) = 2 =>
        /\ returned[2].colored = returned[1].colored
        /\ returned[2].unmatched = returned[1].unmatched

\* C10: every legend group has exactly one row per distinct color of the
\* catalog, and the label of a row is the label of the first catalog entry, in
\* insertion order, that carries the row's color.
C10_LegendOneRowPerColor ==
    \A n \in 1..Len(appended) :
        appended[n].tag = "g" =>
            LET rows == appended[n].rows
                colors == {data[i].v.color : i \in 1..Len(data)}
            IN  /\ Len(rows) = Cardinality(colors)
                /\ {rows[r].rect_fill : r \in 1..Len(rows)} = colors
                /\ \A r \in 1..Len(rows) :
                      LET first == CHOOSE i \in 1..Len(data) :
                                      /\ data[i].v.color = rows[r].rect_fill
                                      /\ \A j \in 1..(i - 1) : data[j].v.color # rows[r].rect_fill
                      IN  rows[r].text = data[first].v.label

\* C10's case: a legend has been added for a catalog whose two entries share a
\* color and differ in label, and its one row carries the first entry's label.
C10_Witness ==
    /\ Len(appended) >= 1
    /\ appended[1].tag = "g"
    /\ Len(data) = 2
    /\ data[1].v.color = data[2].v.color
    /\ data[1].v.label # data[2].v.label
    /\ Len(appended[1].rows) = 1
    /\ appended[1].rows[1].text = data[1].v.label

\* C11: the legend group and the title are appended to the root only once the
\* loop has visited its last path; an iteration of the loop (the only caller of
\* set_fill_color) leaves every appended element as it is, and the rows of a
\* legend group, with their rectangle colors, never change afterwards.
C11_LegendAndTitleAfterWalk ==
    [][/\ Len(appended') > Len(appended) =>
              /\ pc \in {"walk", "title"}
              /\ pos = Len(paths)
       /\ IsColorPathStep => appended' = appended
       /\ \A n \in 1..Len(appended) :
              appended[n].tag = "g" =>
                  /\ n <= Len(appended')
                  /\ appended'[n].rows = appended[n].rows]_vars

\* C11's case: a first run that visited a path has ended with a legend group of
\* at least one row and a title appended.
C11_Witness ==
    /\ pc = "done"
    /\ run = 1
    /\ pos >= 1
    /\ Len(appended) = 2
    /\ appended[1].tag = "g"
    /\ Len(appended[1].rows) >= 1
    /\ appended[2].tag = "text"

\* A fatal condition of color_map: a missing input document, a missing data
\* file, a data file of an unsupported extension.
Fatal ==
    \/ input_file = Absent
    \/ data_file = Absent
    \/ /\ data_file # Absent
       /\ ToLower(data_file[1].ext) \notin {JSON_EXT, CSV_EXT}

\* No document has been read and nothing of a document has been processed.
NothingProcessed ==
    /\ elements = <<>>
    /\ parsed = <<>>
    /\ paths = <<>>
    /\ pos = 0
    /\ appended = <<>>
    /\ colored_count = 0
    /\ matched_codes = {}
    /\ returned = <<>>

\* A fatal condition leaves color_map at its entry checks or aborted with an
\* error, with nothing processed and no output.
FatalAborts ==
    Fatal => /\ pc \in {"start", "parse_data", "error"}
             /\ pc = "error" => error # Absent
             /\ NothingProcessed
             /\ output = Absent

\* C12: on every fatal condition (input document missing, data file missing,
\* unsupported data-file extension) color_map aborts with an error before any
\* document processing and never writes the output; the output is written only
\* by the step that follows the full walk and the legend and title insertion.
C12_FatalAbortsBeforeProcessing ==
    [][/\ FatalAborts
       /\ FatalAborts'
       /\ error' # Absent => Fatal /\ pc' = "error"
       /\ output' # output =>
              /\ pc = "write"
              /\ pc' = "done"
              /\ error = Absent
              /\ pos = Len(paths)
              /\ paths = FindPaths(elements)
              /\ add_legend_flag => \E n \in 1..Len(appended) : appended[n].tag = "g"
              /\ Truthy(title_text) =>
                     \E n \in 1..Len(appended) : appended[n].tag = "text"
              /\ output' = Present([root_ns |-> root_ns, elements |-> elements,
                                    appended |-> appended])]_vars

C12_Witness ==
    /\ pc = "error"
    /\ input_file # Absent
    /\ data_file # Absent
    /\ Fatal
    /\ error = Present("ValueError: Unsupported data format")
    /\ output = Absent

\* The catalog entry the specification gives a JSON entry.
SpecifiedEntry(code, value) ==
    IF value.kind = "object"
    THEN [color |-> Get(value.color, ECECEC), label |-> Get(value.label, code)]
    ELSE [color |-> value.str, label |-> code]

\* C13: for a JSON source every entry of the source yields a catalog entry, a
\* scalar-valued entry code -> v as {color: v, label: code}, an object-valued
\* entry as {color: its color or "#ececec", label: its label or the code}; the
\* catalog has exactly the keys of the source.
C13_EveryJsonEntryInCatalog ==
    (/\ pc \notin {"start", "parse_data", "error"}
     /\ ToLower(data_file[1].ext) = JSON_EXT) =>
        LET source == data_file[1].json
        IN  /\ DictKeys(data) = {source[i].k : i \in 1..Len(source)}
            /\ \A i \in 1..Len(source) :
                   /\ source[i].k \in DictKeys(data)
                   /\ DictGet(data, source[i].k) = SpecifiedEntry(source[i].k, source[i].v)

\* The path elements in the SVG namespace, and the unqualified ones.
NamespacedPaths == {i \in 1..Len(elements) : elements[i].ns}

UnqualifiedPaths == {i \in 1..Len(elements) : ~elements[i].ns}

\* C14: the walk visits the namespaced path elements, and the unqualified ones
\* if and only if there is no namespaced one; in a document with both kinds no
\* unqualified path is colored or default-filled.
C14_NamespacedElseUnqualified ==
    pc # "find" =>
        /\ {paths[k] : k \in 1..Len(paths)} =
               IF NamespacedPaths # {} THEN NamespacedPaths ELSE UnqualifiedPaths
        /\ Visited \subseteq {paths[k] : k \in 1..Len(paths)}
        /\ NamespacedPaths # {} =>
               \A i \in UnqualifiedPaths : elements[i] = parsed[i]

C14_Witness ==
    /\ pc = "done"
    /\ run = 1
    /\ \E i \in UnqualifiedPaths :
           /\ elements[i].id = Present(US)
           /\ US \in Keys
           /\ DictGet(data, US).color # <<>>
           /\ elements[i].fill = Absent
    /\ \E j \in NamespacedPaths : elements[j].fill # Absent

\* C15: the rows of a legend are in ascending order of label, and row k
\* (counted from 0) has its rectangle at (legend_x, Y + 20k) and its text at
\* (legend_x + 25, Y + 20k + 11), where Y is legend_y, or the height of the
\* viewbox minus (number of rows * 20 + 30) when legend_y is not given.
C15_LegendRowsByLabelAtPitch ==
    \A n \in 1..Len(appended) :
        appended[n].tag = "g" =>
            LET rows == appended[n].rows
                viewBoxHeight == GetViewbox(root_attrs)[4]
                Y == IF legend_y = Absent
                     THEN viewBoxHeight - (Len(rows) * 20 + 30)
                     ELSE legend_y[1]
            IN  /\ \A r, s \in 1..Len(rows) :
                       r < s => ~StrLess(rows[s].text, rows[r].text)
                /\ \A r \in 1..Len(rows) :
                       LET k == r - 1
                       IN  /\ rows[r].rect_x = legend_x
                           /\ rows[r].rect_y = Y + 20 * k
                           /\ rows[r].text_x = legend_x + 25
                           /\ rows[r].text_y = Y + 20 * k + 11

\* C15's case: a legend at the default height on a root with a viewBox, for a
\* catalog that lists label B before label A under different colors.
C15_Witness ==
    /\ Len(appended) >= 1
    /\ appended[1].tag = "g"
    /\ legend_y = Absent
    /\ root_attrs.viewBox = Present(<<0, 0, 200, 100>>)
    /\ Len(data) = 2
    /\ data[1].v.label = <<"B">>
    /\ data[2].v.label = <<"A">>
    /\ Len(appended[1].rows) = 2
    /\ appended[1].rows[1].text = <<"A">>
    /\ appended[1].rows[2].rect_y = 50

\* The declarations of a style other than fill, in their order.
OtherThanFill(style_map) ==
    SelectSeq(style_map, LAMBDA e : e.k # FILL)

\* The position of the fill declaration in a style that has one.
FillIndex(style_map) ==
    CHOOSE i \in 1..Len(style_map) : style_map[i].k = FILL

\* The rewritten style of element after keeps the declarations of the style of
\* element before, fill overwritten in place or appended last.
StyleRewritten(before, after, color) ==
    /\ after.style # Absent
    /\ LET old == ParseStyle(before.style[1])
           new == ParseStyle(after.style[1])
       IN  /\ OtherThanFill(new) = OtherThanFill(old)
           /\ FILL \in DictKeys(new)
           /\ DictGet(new, FILL) = color
           /\ IF FILL \in DictKeys(old)
              THEN FillIndex(new) = FillIndex(old)
              ELSE FillIndex(new) = Len(new)

\* C16: set_fill_color on an element with a style attribute rewrites the style
\* so that every property other than fill keeps its value and its place among
\* the others, an existing fill is overwritten where it stands and a new fill
\* is appended last.
C16_StyleOrderPreserved ==
    [][(/\ codec_pc = "element"
        /\ codec_pc' = "filled"
        /\ element.style # Absent) =>
           StyleRewritten(element, element', color_arg)]_vars

\* The loop over the parsed document in document order.
InDocumentOrderWalk ==
    WalkPaths([elements |-> parsed, colored_count |-> 0, multi_path_count |-> 0,
               matched_codes |-> {}],
              FindPaths(parsed), data, default_color)

\* C17: whatever the order in which the loop visits the paths, once it has
\* visited them all every element has the attributes, and the statistics have
\* the values, that a visit in document order gives.
C17_VisitOrderIrrelevant ==
    (pc \in {"title", "write", "done"} \/ (pc = "walk" /\ pos = Len(paths))) =>
        /\ elements = InDocumentOrderWalk.elements
        /\ Stats.colored = InDocumentOrderWalk.colored_count
        /\ Stats.multi_path = InDocumentOrderWalk.multi_path_count
        /\ LET unmatched_codes == DictKeys(data) \ InDocumentOrderWalk.matched_codes
           IN  /\ Stats.unmatched = Cardinality(unmatched_codes)
               /\ Stats.unmatched_codes = SortedStrs(unmatched_codes)
        /\ pc = "done" => returned[Len(returned)] = Stats

\* C17's case: two paths visited in the reverse of document order, both
\* changed by the loop, one colored from the catalog.
C17_Witness ==
    /\ pc = "done"
    /\ Len(paths) = 2
    /\ paths[1] > paths[2]
    /\ colored_count >= 1
    /\ elements[1] # parsed[1]
    /\ elements[2] # parsed[2]
    /\ elements[1] # elements[2]

\* The element carries a fill: a non-empty fill attribute, or a style
\* attribute that contains "fill:".
CarriesFill(path) ==
    \/ path.fill # Absent /\ path.fill[1] # <<>>
    \/ path.style # Absent /\ Contains(path.style[1], <<"f", "i", "l", "l", ":">>)

\* C18: with a non-empty default color, every path the loop has visited
\* carries a fill, a non-empty fill attribute or a style that contains "fill:".
C18_VisitedPathsCarryFill ==
    default_color # <<>> =>
        \A idx \in Visited : CarriesFill(elements[idx])

\* C18's case: the run is over, and a visited path that came with an empty fill
\* attribute and resolved to no color has got the default color.
C18_Witness ==
    /\ pc = "done"
    /\ default_color # <<>>
    /\ \E idx \in Visited :
           /\ parsed[idx].fill = Present(<<>>)
           /\ ~CarriesFill(parsed[idx])
           /\ elements[idx].fill = Present(default_color)

C20_SecondRunKeepsFillAndStyle ==
    run = 2 =>
        /\ Len(elements) = Len(parsed)
        /\ \A i \in 1..Len(elements) :
               /\ elements[i].fill = parsed[i].fill
               /\ elements[i].style = parsed[i].style

====
